---- MODULE Spec2Model ----
(***************************************************************************)
(* Model of dashboard.py: a Streamlit script over one Google Sheets        *)
(* worksheet.  Every user interaction re-runs the script top to bottom:    *)
(* get the client, load the worksheet through a 60 s cache, check the      *)
(* required columns, filter, compute the metrics and the count tables,     *)
(* show the editable grid and, on a click of the save button, overwrite    *)
(* the worksheet with the edited grid and rerun.                           *)
(*                                                                         *)
(* A worksheet is a grid: a sequence of rows, each a sequence of cells,    *)
(* the first row being the header.  A DataFrame is a record of its         *)
(* columns (the header) and its values (the rows).  Cells are strings; a   *)
(* numeric cell (a Python int, a number cell of the worksheet) is written  *)
(* with a leading "#" because TLC does not compare strings with integers:  *)
(* "#7" is the number 7 and "007" is the text 007.                         *)
(***************************************************************************)
EXTENDS Integers, Sequences, FiniteSets, TLC

VARIABLES
    sheet,         \* the worksheet's grid (header row, then data rows)
    pc,            \* position of the script run, "idle" between runs
    view,          \* what the finished run left on the page
    msgs,          \* diagnostics emitted by the current run, in order
    rendered,      \* elements the current run rendered
    client,        \* st.cache_resource entry of get_google_sheet_client
    cache,         \* st.cache_data entry of load_data_from_gsheets
    cacheAge,      \* age of that entry: 0 within its window, TTL past it
    df,            \* the script's df (line 74)
    session,       \* widget state kept across reruns
    editor_data,   \* the table the data editor's pending edit was made on
    hist,          \* history: what the last load and the last save did
    clicks         \* clicks of the save button so far

vars == <<sheet, pc, view, msgs, rendered, client, cache, cacheAge, df,
          session, editor_data, hist, clicks>>

----------------------------------------------------------------------------
(* Bounds of the model *)

MaxRows == 2        \* data rows of the initial worksheet
MaxMissing == 2     \* required columns the initial header may lack
MaxClicks == 1      \* clicks of the save button in one behaviour

(* Program constants *)

TTL == 60           \* st.cache_data(ttl=60)

C_CIDADE == "Cidade"
C_TECNICO == "Responsável Técnico"
C_POP == "Local de Vistoria (POP)"
C_MONITOR == "Monitor de Energia (Sim/Não)"
C_TIPO == "Tipo de Monitor"
C_LIGACAO == "Ligação do Monitor"
C_OBS == "Observações"
C_LINK == "Link para Evidências (Fotos)"

required_cols ==
    <<C_CIDADE, C_TECNICO, C_POP, C_MONITOR, C_TIPO, C_LIGACAO, C_OBS, C_LINK>>

Todas == "Todas"
Todos == "Todos"
Sim == "Sim"
Nao == "Não"

----------------------------------------------------------------------------
(* Values the worksheet's cells are drawn from *)

Cidades == {"A", "B"}
Tecnicos == {"X", "Y"}
Locais == {"P1", "007"}
Statuses == {Sim, Nao, "Talvez"}

Range(s) == {s[i] : i \in DOMAIN s}

\* the sum of f over the set S, f a function defined on S
RECURSIVE FnSum(_, _)
FnSum(f, S) ==
    IF S = {} THEN 0
    ELSE LET x == CHOOSE y \in S : TRUE IN f[x] + FnSum(f, S \ {x})

SeqsUpTo(S, n) == UNION {[1..k -> S] : k \in 0..n}

----------------------------------------------------------------------------
(* DataFrames *)

EmptyFrame == [columns |-> <<>>, values |-> <<>>]

\* df.empty: no columns or no rows
IsEmpty(d) == Len(d.columns) = 0 \/ Len(d.values) = 0

HasCol(d, col) == col \in Range(d.columns)

ColIndex(d, col) == CHOOSE j \in DOMAIN d.columns : d.columns[j] = col

\* row[col] of a row of d
Cell(d, row, col) == row[ColIndex(d, col)]

\* d[d[col] == val]: the rows whose cell equals val, in order
RowsWhere(d, col, val) ==
    LET keep(row) == Cell(d, row, col) = val
    IN  [columns |-> d.columns, values |-> SelectSeq(d.values, keep)]

\* len(d[d[col] == val])
CountWhere(d, col, val) == Len(RowsWhere(d, col, val).values)

\* d[col].unique()
Unique(d, col) == {Cell(d, d.values[i], col) : i \in DOMAIN d.values}

----------------------------------------------------------------------------
(* The worksheet: gspread's calls as the script uses them *)

\* utils.numericise, applied by get_all_records to every data cell: text that
\* reads as a number becomes that number (int("007") = 7), a number cell reads
\* back as the same number, any other text is kept
Numericise(c) ==
    CASE c = "007" -> "#7"
      [] c = "#7" -> "#7"
      [] OTHER -> c

\* worksheet.get_all_records(): no record unless the grid has a header row and
\* a data row; else one record per data row, keyed by the header
GetAllRecords(grid) ==
    IF Len(grid) <= 1 THEN <<>>
    ELSE [i \in 1..(Len(grid) - 1) |->
            [j \in DOMAIN grid[i + 1] |-> Numericise(grid[i + 1][j])]]

\* pd.DataFrame(data): the columns are the records' keys; no record, no column
DataFrame(grid) ==
    LET data == GetAllRecords(grid)
    IN  IF data = <<>> THEN EmptyFrame
        ELSE [columns |-> grid[1], values |-> data]

\* the clear left out
ClearSheetNothing(grid) == grid

\* worksheet.clear()
ClearSheet(grid) == <<>>

\* [df_updated.columns.values.tolist()] + df_updated.values.tolist()
ToRows(d) == <<d.columns>> \o d.values

\* worksheet.update(rows): writes rows from cell A1 on; a cell outside the
\* written range keeps what it held
UpdateSheet(grid, rows) ==
    [i \in 1..(IF Len(grid) > Len(rows) THEN Len(grid) ELSE Len(rows)) |->
        IF i > Len(rows) THEN grid[i]
        ELSE IF i > Len(grid) \/ Len(grid[i]) <= Len(rows[i]) THEN rows[i]
        ELSE rows[i] \o SubSeq(grid[i], Len(rows[i]) + 1, Len(grid[i]))]

----------------------------------------------------------------------------
(* Lines 76-86: the required columns *)

\* the required columns df lacks, as positions in required_cols
MissingCols(d) == {k \in DOMAIN required_cols : ~HasCol(d, required_cols[k])}

\* the last missing column instead of the first
LastMissing(d) ==
    required_cols[CHOOSE k \in MissingCols(d) : \A m \in MissingCols(d) : k >= m]

\* the column the loop of lines 83-86 warns about before st.stop()
FirstMissing(d) ==
    required_cols[CHOOSE k \in MissingCols(d) : \A m \in MissingCols(d) : k <= m]

----------------------------------------------------------------------------
(* Lines 91-109: filters and metrics *)

cidades(d) == {Todas} \cup Unique(d, C_CIDADE)
tecnicos(d) == {Todos} \cup Unique(d, C_TECNICO)

\* the technician filter applied to df instead of df_filtrado
FilterDfFromDf(d, cidade_selecionada, tecnico_selecionado) ==
    IF tecnico_selecionado # Todos
    THEN RowsWhere(d, C_TECNICO, tecnico_selecionado)
    ELSE IF cidade_selecionada # Todas
         THEN RowsWhere(d, C_CIDADE, cidade_selecionada) ELSE d

\* lines 97-101
FilterDf(d, cidade_selecionada, tecnico_selecionado) ==
    LET f1 == IF cidade_selecionada # Todas
              THEN RowsWhere(d, C_CIDADE, cidade_selecionada) ELSE d
    IN  IF tecnico_selecionado # Todos
        THEN RowsWhere(f1, C_TECNICO, tecnico_selecionado) ELSE f1

\* lines 106-108
TotalPops(f) == Len(f.values)
ComMonitor(f) == CountWhere(f, C_MONITOR, Sim)

\* every record that is not 'Sim' counted as without monitor
SemMonitorNotSim(f) == TotalPops(f) - ComMonitor(f)

SemMonitor(f) == CountWhere(f, C_MONITOR, Nao)

\* the ratio taken the wrong way round
PercentualInverse(f) ==
    IF TotalPops(f) > 0
    THEN [num |-> TotalPops(f) * 100, den |-> ComMonitor(f)]
    ELSE [num |-> 0, den |-> 1]

\* line 109: com_monitor / total_pops * 100, or 0; kept as the exact fraction
\* num / den
Percentual(f) ==
    IF TotalPops(f) > 0
    THEN [num |-> ComMonitor(f) * 100, den |-> TotalPops(f)]
    ELSE [num |-> 0, den |-> 1]

\* the table with the two canonical status columns only
GroupSizeSimNao(f, key) ==
    [k \in Unique(f, key) |->
        [s \in Unique(f, C_MONITOR) \cap {Sim, Nao} |->
            Cardinality({i \in DOMAIN f.values :
                /\ Cell(f, f.values[i], key) = k
                /\ Cell(f, f.values[i], C_MONITOR) = s})]]

\* lines 127 and 138: groupby([key, status]).size().unstack(fill_value=0): one
\* row per key value present, one column per status value present, each cell
\* the number of records with that key and that status, 0 where there is none
GroupSizeUnstack(f, key) ==
    [k \in Unique(f, key) |->
        [s \in Unique(f, C_MONITOR) |->
            Cardinality({i \in DOMAIN f.values :
                /\ Cell(f, f.values[i], key) = k
                /\ Cell(f, f.values[i], C_MONITOR) = s})]]

\* the sum of all cells of such a table
TableSum(t) ==
    LET rowSum == [k \in DOMAIN t |-> FnSum(t[k], DOMAIN t[k])]
    IN  FnSum(rowSum, DOMAIN t)

----------------------------------------------------------------------------
(* Lines 185-212: the detail table and the data editor *)

\* lines 187-190
DfTabela(f, mostrar_apenas_sem_monitor) ==
    IF mostrar_apenas_sem_monitor THEN RowsWhere(f, C_MONITOR, Nao) ELSE f

NoEdit == [kind |-> "none", row |-> 0, val |-> ""]

\* the edits the grid offers on table t: none, a status cell set to one of the
\* SelectboxColumn's options, a row deleted (num_rows="dynamic")
Edits(t) ==
    {NoEdit}
    \cup {[kind |-> "set", row |-> i, val |-> v] :
            i \in DOMAIN t.values, v \in {Sim, Nao}}
    \cup {[kind |-> "del", row |-> i, val |-> ""] : i \in DOMAIN t.values}

\* st.data_editor(df_tabela, ...): the table with the pending edit applied
DataEditor(t, edit) ==
    CASE edit.kind = "set" ->
            [t EXCEPT !.values[edit.row][ColIndex(t, C_MONITOR)] = edit.val]
      [] edit.kind = "del" ->
            [t EXCEPT !.values =
                SubSeq(t.values, 1, edit.row - 1)
                \o SubSeq(t.values, edit.row + 1, Len(t.values))]
      [] OTHER -> t

----------------------------------------------------------------------------
(* The script's locals, as functions of the state of a run that rendered *)

cidade_selecionada == session.cidade
tecnico_selecionado == session.tecnico
df_filtrado == FilterDf(df, cidade_selecionada, tecnico_selecionado)
total_pops == TotalPops(df_filtrado)
com_monitor == ComMonitor(df_filtrado)
sem_monitor == SemMonitor(df_filtrado)
percentual_com_monitor == Percentual(df_filtrado)
cidade_counts == GroupSizeUnstack(df_filtrado, C_CIDADE)
tecnico_counts == GroupSizeUnstack(df_filtrado, C_TECNICO)
df_tabela == DfTabela(df_filtrado, session.apenas_sem_monitor)
edited_df == DataEditor(df_tabela, session.edit)

----------------------------------------------------------------------------
(* Initial state: the worksheet as the users left it, nothing cached *)

\* a record of the worksheet, one value per required column
Records ==
    {[c \in Range(required_cols) |->
        CASE c = C_CIDADE -> ci
          [] c = C_TECNICO -> te
          [] c = C_POP -> lo
          [] c = C_MONITOR -> st
          [] OTHER -> ""] :
     ci \in Cidades, te \in Tecnicos, lo \in Locais, st \in Statuses}

\* the header lacking the required columns at the positions in M
HeaderWithout(M) ==
    LET present(c) == c \notin {required_cols[k] : k \in M}
    IN  SelectSeq(required_cols, present)

Headers ==
    {HeaderWithout(M) :
        M \in {X \in SUBSET DOMAIN required_cols : Cardinality(X) <= MaxMissing}}

Grid(header, recs) ==
    <<header>> \o [i \in DOMAIN recs |-> [j \in DOMAIN header |-> recs[i][header[j]]]]

\* two records the script tells apart in every way it looks at one: city,
\* technician, status, and a site name that reads as a number
SampleRecords ==
    {r \in Records :
        \/ r[C_CIDADE] = "A" /\ r[C_TECNICO] = "X" /\ r[C_POP] = "007" /\ r[C_MONITOR] = Sim
        \/ r[C_CIDADE] = "B" /\ r[C_TECNICO] = "Y" /\ r[C_POP] = "P1" /\ r[C_MONITOR] = Nao}

\* the worksheets the program starts from
InitialSheets ==
    {Grid(h, recs) : h \in Headers, recs \in SeqsUpTo(SampleRecords, MaxRows)}

\* the worksheets the page is rendered from: every record set under the full
\* header, the sample under the others
PageSheets ==
    {Grid(required_cols, recs) : recs \in SeqsUpTo(Records, MaxRows)}
    \cup InitialSheets

DefaultSession ==
    [cidade |-> Todas, tecnico |-> Todos, apenas_sem_monitor |-> FALSE,
     edit |-> NoEdit, clicked |-> FALSE]

NoCache == [valid |-> FALSE, value |-> EmptyFrame, msg |-> "none"]

InitHist ==
    [failure |-> "none", df_current |-> EmptyFrame, loaded291 |-> FALSE,
     save |-> "none", sheetBefore |-> <<>>, passed |-> EmptyFrame,
     pending |-> FALSE, preSave |-> EmptyFrame, saved |-> EmptyFrame]

Init ==
    /\ sheet \in InitialSheets
    /\ pc = "start"
    /\ view = "running"
    /\ msgs = <<>>
    /\ rendered = {}
    /\ client = "none"
    /\ cache = NoCache
    /\ cacheAge = 0
    /\ df = EmptyFrame
    /\ session = DefaultSession
    /\ editor_data = EmptyFrame
    /\ hist = InitHist
    /\ clicks = 0

Msg(kind, arg) == [kind |-> kind, arg |-> arg]

----------------------------------------------------------------------------
(* Time *)

\* the entry's window elapses.  The script reads the age only in a call of
\* load_data_from_gsheets and only against the ttl: the ages within the window
\* are all alike, and so are the ages past it.  The time that has passed is
\* added as the call is reached
Tick ==
    /\ pc \in {"start", "save_load"}
    /\ cache.valid
    /\ cacheAge < TTL
    /\ cacheAge' = TTL
    /\ UNCHANGED <<sheet, pc, view, msgs, rendered, client, cache, df, session,
                   editor_data, hist, clicks>>

----------------------------------------------------------------------------
(* Lines 32-49: load_data_from_gsheets under st.cache_data(ttl=60) *)

\* an entry as old as the ttl still served
CacheFreshAtTTL(age) == age <= TTL

\* the cached entry is served while younger than the ttl
CacheFresh(age) == age < TTL

CacheHit == cache.valid /\ CacheFresh(cacheAge)

\* what the function body can do: read the worksheet, or raise one of the three
\* caught exceptions and return an empty DataFrame
BodyOutcomes ==
    {[value |-> DataFrame(sheet), msg |-> "success"]}
    \cup {[value |-> EmptyFrame, msg |-> m] :
            m \in {"SpreadsheetNotFound", "WorksheetNotFound", "Exception"}}

\* one call: the outcomes [value, msg, cache, age] it can have.  A hit returns
\* the stored value and replays the stored message; a miss runs the body and
\* stores what it returned, whatever it returned
load_data_from_gsheets ==
    IF CacheHit
    THEN {[value |-> cache.value, msg |-> cache.msg, cache |-> cache,
           age |-> cacheAge]}
    ELSE {[value |-> o.value, msg |-> o.msg,
           cache |-> [valid |-> TRUE, value |-> o.value, msg |-> o.msg],
           age |-> 0] :
          o \in BodyOutcomes}

\* the history after a call with outcome o: a save is pending until a call
\* reads the worksheet again
HistLoad(h, o) ==
    [h EXCEPT !.pending = h.pending /\ CacheHit,
              !.failure = IF o.msg = "success" THEN h.failure ELSE "load"]

----------------------------------------------------------------------------
(* Lines 19-212 and 339-341: a run of the script down to the save button *)

\* lines 19-29: st.secrets[...], from_json_keyfile_dict or authorize raises:
\* nothing catches it, the run ends with the exception on the page
GetClientRaises ==
    /\ pc = "start"
    /\ client = "none"
    /\ pc' = "idle"
    /\ view' = "exception"
    /\ session' = DefaultSession
    /\ editor_data' = EmptyFrame
    /\ hist' = [hist EXCEPT !.failure = "auth"]
    /\ UNCHANGED <<sheet, msgs, rendered, client, cache, cacheAge, df, clicks>>

\* lines 29 and 74: the client is there or is built, and df is loaded
LoadData(o) ==
    /\ pc = "start"
    /\ client' = "ok"
    /\ df' = o.value
    /\ cache' = o.cache
    /\ cacheAge' = o.age
    /\ hist' = HistLoad(hist, o)
    /\ UNCHANGED <<sheet, clicks>>

\* lines 339-341: df.empty, the two notices and nothing else
NoData ==
    \E o \in load_data_from_gsheets :
        /\ LoadData(o)
        /\ IsEmpty(o.value)
        /\ msgs' = msgs \o <<Msg("load", o.msg),
                             Msg("warning", "Nenhum dado encontrado"),
                             Msg("info", "Verifique")>>
        /\ view' = "nodata"
        /\ pc' = "idle"
        /\ session' = DefaultSession
        /\ editor_data' = EmptyFrame
        /\ UNCHANGED rendered

\* lines 83-86: the first required column that is missing is reported and
\* st.stop() ends the run
MissingColumnStop ==
    \E o \in load_data_from_gsheets :
        /\ LoadData(o)
        /\ ~IsEmpty(o.value)
        /\ MissingCols(o.value) # {}
        /\ msgs' = msgs \o <<Msg("load", o.msg),
                             Msg("missing", FirstMissing(o.value))>>
        /\ view' = "halted"
        /\ pc' = "idle"
        /\ session' = DefaultSession
        /\ editor_data' = EmptyFrame
        /\ UNCHANGED rendered

\* a selectbox keeps the stored choice while it is one of its options
Choice(stored, options, default) == IF stored \in options THEN stored ELSE default

\* lines 88-214: filters, metrics, charts, the table and the editor; the run
\* ends there unless the save button was clicked
Render ==
    \E o \in load_data_from_gsheets :
        /\ LoadData(o)
        /\ ~IsEmpty(o.value)
        /\ MissingCols(o.value) = {}
        /\ LET cid == Choice(session.cidade, cidades(o.value), Todas)
               tec == Choice(session.tecnico, tecnicos(o.value), Todos)
               tab == DfTabela(FilterDf(o.value, cid, tec),
                               session.apenas_sem_monitor)
               keep == session.edit.kind # "none" /\ tab = editor_data
           IN  /\ session' = [session EXCEPT !.cidade = cid, !.tecnico = tec,
                                  !.edit = IF keep THEN session.edit ELSE NoEdit]
               /\ editor_data' = IF keep THEN editor_data ELSE EmptyFrame
        /\ msgs' = Append(msgs, Msg("load", o.msg))
        /\ rendered' = {"filters", "metrics", "charts", "table"}
        /\ view' = "dashboard"
        /\ pc' = IF session.clicked THEN "save_load" ELSE "idle"

----------------------------------------------------------------------------
(* Lines 214-315: the save button's handler *)

\* line 291: df_current = load_data_from_gsheets(), a value nothing reads
LoadCurrent ==
    /\ pc = "save_load"
    /\ \E o \in load_data_from_gsheets :
        /\ cache' = o.cache
        /\ cacheAge' = o.age
        /\ msgs' = Append(msgs, Msg("load", o.msg))
        /\ hist' = [HistLoad(hist, o) EXCEPT !.df_current = o.value,
                                             !.loaded291 = TRUE]
    /\ pc' = "save_open"
    /\ UNCHANGED <<sheet, view, rendered, client, df, session, editor_data, clicks>>

SaveError == Msg("error", "Erro ao atualizar dados")

\* the history once df_current is out of scope
Used(h) == [h EXCEPT !.df_current = EmptyFrame, !.loaded291 = FALSE]

\* lines 53-56 raise (open, worksheet or clear): the worksheet is as it was
SaveRaisesBeforeClear ==
    /\ pc = "save_open"
    /\ msgs' = Append(msgs, SaveError)
    /\ hist' = [Used(hist) EXCEPT !.save = "failed", !.passed = edited_df,
                                  !.sheetBefore = sheet]
    /\ pc' = "rerun"
    /\ UNCHANGED <<sheet, view, rendered, client, cache, cacheAge, df, session,
                   editor_data, clicks>>

\* line 56
SaveClear ==
    /\ pc = "save_open"
    /\ sheet' = ClearSheet(sheet)
    /\ hist' = [Used(hist) EXCEPT !.passed = edited_df, !.sheetBefore = sheet,
                                  !.pending = FALSE]
    /\ pc' = "save_update"
    /\ UNCHANGED <<view, msgs, rendered, client, cache, cacheAge, df, session,
                   editor_data, clicks>>

\* lines 57-58
SaveUpdate ==
    /\ pc = "save_update"
    /\ sheet' = UpdateSheet(sheet, ToRows(edited_df))
    /\ msgs' = Append(msgs, Msg("success", "Dados atualizados"))
    /\ hist' = [hist EXCEPT !.save = "ok", !.pending = TRUE,
                            !.preSave = cache.value, !.saved = edited_df]
    /\ pc' = "rerun"
    /\ UNCHANGED <<view, rendered, client, cache, cacheAge, df, session,
                   editor_data, clicks>>

\* line 57 raises after the clear: the worksheet stays cleared
SaveRaisesAfterClear ==
    /\ pc = "save_update"
    /\ msgs' = Append(msgs, SaveError)
    /\ hist' = [hist EXCEPT !.save = "failed"]
    /\ pc' = "rerun"
    /\ UNCHANGED <<sheet, view, rendered, client, cache, cacheAge, df, session,
                   editor_data, clicks>>

\* line 315: st.experimental_rerun(), whatever the save did; the button reads
\* False in the new run, the other widgets keep their state
Rerun ==
    /\ pc = "rerun"
    /\ session' = [session EXCEPT !.clicked = FALSE]
    /\ msgs' = <<>>
    /\ rendered' = {}
    /\ hist' = [hist EXCEPT !.failure = "none"]
    /\ view' = "running"
    /\ df' = EmptyFrame
    /\ pc' = "start"
    /\ UNCHANGED <<sheet, client, cache, cacheAge, editor_data, clicks>>

----------------------------------------------------------------------------
(* The user: every interaction starts a run of the script *)

\* the history of the run before is dropped, but for the save a cached load
\* has not caught up with
NewRun(h) ==
    [InitHist EXCEPT !.pending = h.pending,
                     !.preSave = IF h.pending THEN h.preSave ELSE EmptyFrame,
                     !.saved = IF h.pending THEN h.saved ELSE EmptyFrame]

StartRun ==
    /\ msgs' = <<>>
    /\ rendered' = {}
    /\ hist' = NewRun(hist)
    /\ view' = "running"
    /\ df' = EmptyFrame
    /\ pc' = "start"
    /\ UNCHANGED <<sheet, client, cache, cacheAge>>

\* the page is reloaded, or a widget is touched without changing it
Refresh ==
    /\ pc = "idle"
    /\ StartRun
    /\ UNCHANGED <<session, editor_data, clicks>>

SelectCidade ==
    /\ pc = "idle" /\ view = "dashboard"
    /\ \E c \in cidades(df) \ {session.cidade} :
        session' = [session EXCEPT !.cidade = c]
    /\ StartRun
    /\ UNCHANGED <<editor_data, clicks>>

SelectTecnico ==
    /\ pc = "idle" /\ view = "dashboard"
    /\ \E t \in tecnicos(df) \ {session.tecnico} :
        session' = [session EXCEPT !.tecnico = t]
    /\ StartRun
    /\ UNCHANGED <<editor_data, clicks>>

ToggleSemMonitor ==
    /\ pc = "idle" /\ view = "dashboard"
    /\ session' = [session EXCEPT !.apenas_sem_monitor = ~@]
    /\ StartRun
    /\ UNCHANGED <<editor_data, clicks>>

\* the user changes the grid: the pending edit is against the table shown
EditGrid ==
    /\ pc = "idle" /\ view = "dashboard"
    /\ \E e \in Edits(df_tabela) \ {NoEdit, session.edit} :
        session' = [session EXCEPT !.edit = e]
    /\ editor_data' = df_tabela
    /\ StartRun
    /\ UNCHANGED clicks

ClickSalvar ==
    /\ pc = "idle" /\ view = "dashboard"
    /\ clicks < MaxClicks
    /\ clicks' = clicks + 1
    /\ session' = [session EXCEPT !.clicked = TRUE]
    /\ StartRun
    /\ UNCHANGED editor_data

----------------------------------------------------------------------------

Next ==
    \/ Tick
    \/ GetClientRaises
    \/ NoData
    \/ MissingColumnStop
    \/ Render
    \/ LoadCurrent
    \/ SaveRaisesBeforeClear
    \/ SaveClear
    \/ SaveUpdate
    \/ SaveRaisesAfterClear
    \/ Rerun
    \/ Refresh
    \/ SelectCidade
    \/ SelectTecnico
    \/ ToggleSemMonitor
    \/ EditGrid
    \/ ClickSalvar

Spec == Init /\ [][Next]_vars

----------------------------------------------------------------------------
(* The page alone: one run of the script down to the page it leaves, from   *)
(* every worksheet and every stored choice of the two selectors             *)

PageInit ==
    /\ sheet \in PageSheets
    /\ pc = "start"
    /\ view = "running"
    /\ msgs = <<>>
    /\ rendered = {}
    /\ client = "ok"
    /\ cache = NoCache
    /\ cacheAge = 0
    /\ df = EmptyFrame
    /\ session \in [cidade : {Todas} \cup Cidades, tecnico : {Todos} \cup Tecnicos,
                    apenas_sem_monitor : {FALSE}, edit : {NoEdit}, clicked : {FALSE}]
    /\ editor_data = EmptyFrame
    /\ hist = InitHist
    /\ clicks = 0

PageNext ==
    \/ NoData
    \/ MissingColumnStop
    \/ Render

SpecPage == PageInit /\ [][PageNext]_vars

----------------------------------------------------------------------------
(* Properties of the page, checked under SpecPage *)

\* a run has rendered the dashboard and ended
RenderedPage == pc = "idle" /\ view = "dashboard"

\* the selectors' predicate on row i of df
Matches(i) ==
    /\ cidade_selecionada = Todas
       \/ Cell(df, df.values[i], C_CIDADE) = cidade_selecionada
    /\ tecnico_selecionado = Todos
       \/ Cell(df, df.values[i], C_TECNICO) = tecnico_selecionado

Matching == {i \in DOMAIN df.values : Matches(i)}

\* C1: the filtered table holds exactly the records that match the selectors
\* (city is 'Todas' or equal, technician is 'Todos' or equal), in their source
\* order: the k-th matching record of df is the k-th record of df_filtrado; and
\* the selector (Todas, Todos) returns df unchanged.
C1_Filter ==
    RenderedPage =>
        /\ df_filtrado.columns = df.columns
        /\ Len(df_filtrado.values) = Cardinality(Matching)
        /\ \A i \in Matching :
            df_filtrado.values[Cardinality({j \in Matching : j <= i})] = df.values[i]
        /\ (cidade_selecionada = Todas /\ tecnico_selecionado = Todos)
            => df_filtrado = df

C1_Witness ==
    /\ RenderedPage
    /\ cidade_selecionada # Todas
    /\ tecnico_selecionado # Todos
    /\ Len(df_filtrado.values) > 0
    /\ Len(df_filtrado.values) < Len(df.values)

CanonicalStatus(f) ==
    \A i \in DOMAIN f.values : Cell(f, f.values[i], C_MONITOR) \in {Sim, Nao}

\* C8: com_monitor + sem_monitor <= total_pops, with equality iff every record
\* of the filtered subset has status 'Sim' or 'Não'; a record with another
\* status counts in total_pops only.
C8_Counts ==
    RenderedPage =>
        /\ com_monitor + sem_monitor <= total_pops
        /\ (com_monitor + sem_monitor = total_pops) <=> CanonicalStatus(df_filtrado)
        /\ total_pops - (com_monitor + sem_monitor) =
            Cardinality({i \in DOMAIN df_filtrado.values :
                Cell(df_filtrado, df_filtrado.values[i], C_MONITOR) \notin {Sim, Nao}})

C8_Witness ==
    /\ RenderedPage
    /\ ~CanonicalStatus(df_filtrado)
    /\ com_monitor > 0
    /\ com_monitor + sem_monitor < total_pops

\* C9 as stated: the cells of the city x status table, and those of the
\* technician x status table, sum to com_monitor + sem_monitor.
C9_Original ==
    RenderedPage =>
        /\ TableSum(cidade_counts) = com_monitor + sem_monitor
        /\ TableSum(tecnico_counts) = com_monitor + sem_monitor

\* C9 as amended: the cells of each table sum to total_pops, every status value
\* present having its column; the sum is com_monitor + sem_monitor exactly when
\* every record of the subset has status 'Sim' or 'Não'.
C9_TableSums ==
    RenderedPage =>
        /\ TableSum(cidade_counts) = total_pops
        /\ TableSum(tecnico_counts) = total_pops
        /\ (TableSum(cidade_counts) = com_monitor + sem_monitor)
            <=> CanonicalStatus(df_filtrado)

C9_Witness ==
    /\ RenderedPage
    /\ TableSum(cidade_counts) > com_monitor + sem_monitor
    /\ TableSum(tecnico_counts) > com_monitor + sem_monitor
    /\ com_monitor + sem_monitor > 0

InRange(p) == 0 <= p.num /\ p.num <= 100 * p.den

\* C10 as stated: the percentage is in [0, 100] and is 0 exactly when
\* total_pops is 0.
C10_Original ==
    RenderedPage =>
        /\ InRange(percentual_com_monitor)
        /\ (percentual_com_monitor.num = 0) <=> (total_pops = 0)

\* C10 as amended: the percentage is in [0, 100], is 0 when total_pops is 0,
\* and is 0 exactly when com_monitor is 0.
C10_Percent ==
    RenderedPage =>
        /\ percentual_com_monitor.den > 0
        /\ InRange(percentual_com_monitor)
        /\ total_pops = 0 => percentual_com_monitor.num = 0
        /\ (percentual_com_monitor.num = 0) <=> (com_monitor = 0)
        /\ total_pops > 0 =>
            percentual_com_monitor.num * total_pops
                = com_monitor * 100 * percentual_com_monitor.den

C10_Witness ==
    /\ RenderedPage
    /\ total_pops > 0
    /\ com_monitor = 0
    /\ percentual_com_monitor.num = 0

----------------------------------------------------------------------------
(* Properties of the program, checked under Spec *)

\* a save has just succeeded (the run is at line 315)
SaveSucceeded == pc = "rerun" /\ hist.save = "ok"

\* the rows of df that the filters or the checkbox keep out of the grid
Excluded ==
    {i \in DOMAIN df.values :
        \/ ~Matches(i)
        \/ session.apenas_sem_monitor /\ Cell(df, df.values[i], C_MONITOR) # Nao}

Call74 == pc = "start" /\ pc' # "start" /\ view' # "exception"
Call291 == pc = "save_load" /\ pc' = "save_open"
Returned == IF Call74 THEN df' ELSE hist'.df_current

\* what C3 asks of one step: a call made while a save is pending (no call has
\* read the worksheet since the save)
C3_Step ==
    (hist.pending /\ (Call74 \/ Call291)) =>
        /\ cacheAge < TTL => Returned = hist.preSave
        /\ (cacheAge >= TTL /\ cache'.msg = "success") =>
            /\ Returned.values = hist.saved.values
            /\ hist.saved.values # <<>> => Returned = hist.saved
            /\ ~hist'.pending

MissingMsgs == {i \in DOMAIN msgs : msgs[i].kind = "missing"}

\* a run ended on a table with records that lacks required columns
LacksColumns == pc = "idle" /\ ~IsEmpty(df) /\ MissingCols(df) # {}

\* C4 as stated: the run halts before anything is rendered, with one diagnostic
\* for each missing column.
C4_Original ==
    LacksColumns =>
        /\ view = "halted"
        /\ rendered = {}
        /\ \A k \in MissingCols(df) : Msg("missing", required_cols[k]) \in Range(msgs)

\* C4 as amended: the run halts before anything is rendered, with exactly one
\* diagnostic, naming the first missing column in the order of required_cols.
C4_FirstMissingOnly ==
    LacksColumns =>
        /\ view = "halted"
        /\ rendered = {}
        /\ Cardinality(MissingMsgs) = 1
        /\ \E k \in MissingCols(df) :
            /\ \A m \in MissingCols(df) : k <= m
            /\ \A i \in MissingMsgs : msgs[i].arg = required_cols[k]

C4_Witness ==
    /\ LacksColumns
    /\ view = "halted"
    /\ Cardinality(MissingCols(df)) >= 2
    /\ Cardinality(MissingMsgs) = 1

\* C5: whatever fails on the way to the data (the credentials and the client
\* of lines 19-29, the three failures load_data_from_gsheets catches), the run
\* ends on the 'no data' page with the load's diagnostic among its messages.
C5_LoadFailureRecovered ==
    (pc = "idle" /\ hist.failure # "none") =>
        /\ view = "nodata"
        /\ \E i \in DOMAIN msgs : msgs[i].kind = "load" /\ msgs[i].arg # "success"

\* C6: after a save that failed, the failure is reported and the run that
\* follows shows the grid with the same edits, ready to be saved again.
C6_RetryAfterFailedSave ==
    /\ (pc = "rerun" /\ hist.save = "failed") => SaveError \in Range(msgs)
    /\ (pc = "idle" /\ hist.save = "failed" /\ hist.failure = "none") =>
        /\ view = "dashboard"
        /\ edited_df = hist.passed

\* C7: a save of exactly what a load of the worksheet returns leaves the
\* worksheet as it was, so that the next load returns the same table.
C7_RoundTrip ==
    (SaveSucceeded /\ hist.passed = DataFrame(hist.sheetBefore)) =>
        /\ sheet = hist.sheetBefore
        /\ DataFrame(sheet) = hist.passed

====
